---- MODULE Spec2Model ----
(***************************************************************************)
(* A model of octodns.source.tinydns: TinyDnsBaseSource.populate and the   *)
(* two passes it dispatches to (_populate_normal, _populate_in_addr_arpa), *)
(* the per-type _data_for_* normalizers and TinyDnsFileSource._lines.      *)
(* Strings are TLA+ strings, handled character by character with Len,      *)
(* SubSeq and \o, so that line parsing, regular-expression matching and    *)
(* the reverse-pointer computation are modelled by what they do.           *)
(***************************************************************************)
EXTENDS Integers, Sequences, FiniteSets, TLC

VARIABLES zone_name,   \* zone.name
          before,      \* populate: len(zone.records) on entry
          directory,   \* the text lines of the zone files, as read
          cache,       \* TinyDnsFileSource._cache: loaded is FALSE for None
          mode,        \* which branch populate took
          pc,          \* position of the populate call
          i,           \* index in cache of the next line of the for loop
          data,        \* _populate_normal: data[name][_type], insertion order
          emitted,     \* _populate_normal: indices of data already iterated
          cur_name,    \* _populate_normal: name of the outer loop iteration
          records,     \* zone.records, in the order add_record accepted them
          handed,      \* every record passed to zone.add_record, in order
          log,         \* log.warn / log.debug calls made by the passes
          addr,        \* _populate_in_addr_arpa: the local variable addr
          err          \* the exception that ended populate, or None

vars == <<zone_name, before, directory, cache, mode, pc, i, data, emitted, cur_name,
          records, handed, log, addr, err>>

None == "None"

\* The local name addr before any assignment to it.
Unbound == "<unbound>"

(***************************************************************************)
(* Bounds of the model.                                                    *)
(***************************************************************************)
MaxLines == 3

(***************************************************************************)
(* Strings.                                                                *)
(***************************************************************************)
Char(s, k) == SubSeq(s, k, k)

Drop(s, k) == SubSeq(s, k + 1, Len(s))

EndsWith(s, suffix) ==
    /\ Len(s) >= Len(suffix)
    /\ SubSeq(s, Len(s) - Len(suffix) + 1, Len(s)) = suffix

MinOf(S) == CHOOSE m \in S : \A n \in S : m <= n

\* s.find(c) + 1: the first position of character c in s, 0 when absent.
IndexOf(s, c) ==
    LET at == {k \in 1..Len(s) : Char(s, k) = c}
    IN  IF at = {} THEN 0 ELSE MinOf(at)

\* s.split(c): every occurrence of c separates two parts.
RECURSIVE SplitOn(_, _)
SplitOn(s, c) ==
    LET k == IndexOf(s, c)
    IN  IF k = 0 THEN <<s>>
        ELSE <<SubSeq(s, 1, k - 1)>> \o SplitOn(Drop(s, k), c)

\* s.split('#', 1)[0]
BeforeHash(s) ==
    LET k == IndexOf(s, "#")
    IN  IF k = 0 THEN s ELSE SubSeq(s, 1, k - 1)

Whitespace == {" ", "\t"}

\* s.strip()
RECURSIVE strip(_)
strip(s) ==
    IF Len(s) = 0 THEN s
    ELSE IF Char(s, 1) \in Whitespace THEN strip(Drop(s, 1))
    ELSE IF Char(s, Len(s)) \in Whitespace THEN strip(SubSeq(s, 1, Len(s) - 1))
    ELSE s

\* The position of the first character of s at or after k that is not ':'.
RECURSIVE SkipColons(_, _)
SkipColons(s, k) ==
    IF k <= Len(s) /\ Char(s, k) = ":" THEN SkipColons(s, k + 1) ELSE k

\* split_re.split(s), split_re = re.compile(r':+'): a run of colons is one
\* separator; a leading or trailing run leaves an empty first or last part.
RECURSIVE split_re(_)
split_re(s) ==
    LET k == IndexOf(s, ":")
    IN  IF k = 0 THEN <<s>>
        ELSE <<SubSeq(s, 1, k - 1)>> \o split_re(SubSeq(s, SkipColons(s, k), Len(s)))

\* [p.strip() for p in self.split_re.split(line[1:].split('#', 1)[0])]
Fields(line) ==
    LET parts == split_re(BeforeHash(Drop(line, 1)))
    IN  [k \in 1..Len(parts) |-> strip(parts[k])]

Digits == {"0", "1", "2", "3", "4", "5", "6", "7", "8", "9"}

IsDigits(s) == Len(s) > 0 /\ \A k \in 1..Len(s) : Char(s, k) \in Digits

DigitVal(c) ==
    CASE c = "0" -> 0 [] c = "1" -> 1 [] c = "2" -> 2 [] c = "3" -> 3
      [] c = "4" -> 4 [] c = "5" -> 5 [] c = "6" -> 6 [] c = "7" -> 7
      [] c = "8" -> 8 [] c = "9" -> 9

\* int(s) for a string of decimal digits.
RECURSIVE ToInt(_)
ToInt(s) ==
    IF Len(s) = 0 THEN 0
    ELSE 10 * ToInt(SubSeq(s, 1, Len(s) - 1)) + DigitVal(Char(s, Len(s)))

\* '.'.join(parts)
RECURSIVE JoinDots(_)
JoinDots(parts) ==
    IF Len(parts) = 0 THEN ""
    ELSE IF Len(parts) = 1 THEN parts[1]
    ELSE parts[1] \o "." \o JoinDots(Tail(parts))

Reverse(s) == [k \in 1..Len(s) |-> s[Len(s) + 1 - k]]

(***************************************************************************)
(* ipaddress.ip_address and IPv4Address.reverse_pointer.  A field never    *)
(* holds a ':' (the field separator), so only the IPv4 form can parse.     *)
(***************************************************************************)
\* One to three decimal digits, no leading zero, at most 255.
IsOctet(s) ==
    /\ IsDigits(s)
    /\ Len(s) <= 3
    /\ (Len(s) > 1 => Char(s, 1) # "0")
    /\ ToInt(s) <= 255

\* FALSE where ip_address raises ValueError.
IsIPv4(s) ==
    LET octets == SplitOn(s, ".")
    IN  Len(octets) = 4 /\ \A k \in 1..4 : IsOctet(octets[k])

reverse_pointer_unreversed(ip) == ip \o ".in-addr.arpa"

reverse_pointer(ip) == JoinDots(Reverse(SplitOn(ip, "."))) \o ".in-addr.arpa"

(***************************************************************************)
(* Program constants and the zone the call is made on.                     *)
(***************************************************************************)
\* TinyDnsBaseSource.__init__(self, id, default_ttl=3600)
default_ttl == 3600

\* The exceptions that can end a populate call.
IndexError == "IndexError"
ValueError == "ValueError"
UnboundLocalError == "UnboundLocalError"
DuplicateRecordException == "DuplicateRecordException"
SubzoneRecordException == "SubzoneRecordException"

\* zone.name[:-1], as spliced into the regular expressions.
ZoneSuffix(zone) == SubSeq(zone, 1, Len(zone) - 1)

\* A regular-expression fragment made of the zone's name matched against a
\* string of the same length: the name is spliced in unescaped, so each of
\* its '.' matches any character and every other character matches itself
\* (zone names are made of letters, digits, '-' and '.').
RegexMatchesWhole(pattern, s) ==
    /\ Len(pattern) = Len(s)
    /\ \A k \in 1..Len(s) : Char(pattern, k) = "." \/ Char(pattern, k) = Char(s, k)

\* '(?P<name>.+)\.<zone>$' matched from the start of s: at least one
\* character, a literal '.', then the zone fragment up to the end.
LabelledMatch(zone, s) ==
    LET z == ZoneSuffix(zone)
    IN  /\ Len(s) >= Len(z) + 2
        /\ Char(s, Len(s) - Len(z)) = "."
        /\ RegexMatchesWhole(z, SubSeq(s, Len(s) - Len(z) + 1, Len(s)))

\* name_re of _populate_normal: '((?P<name>.+)\.)?<zone>$' with re.match.
name_re_normal(zone, s) ==
    RegexMatchesWhole(ZoneSuffix(zone), s) \/ LabelledMatch(zone, s)

\* name_re of _populate_in_addr_arpa: '(?P<name>.+)\.<zone>$' with re.match.
name_re_in_addr_arpa(zone, s) == LabelledMatch(zone, s)

\* match.group('name') of a successful labelled match.
GroupName(zone, s) == SubSeq(s, 1, Len(s) - Len(zone))

\* zone.hostname_from_fqdn(fqdn): the name with the zone suffix removed,
\* empty for the zone apex.
hostname_from_fqdn(zone, fqdn) ==
    IF Len(fqdn) <= Len(ZoneSuffix(zone)) THEN "" ELSE GroupName(zone, fqdn)

\* zone.name.endswith('in-addr.arpa.')
IsInAddrArpaBroken(zone) == EndsWith(zone, "in-addr.arpa")

IsInAddrArpa(zone) == EndsWith(zone, "in-addr.arpa.")

(***************************************************************************)
(* type_map of _populate_normal and the tags of _populate_in_addr_arpa.    *)
(***************************************************************************)
TypeMapKeys == {"=", "^", ".", "C", "+", "@"}

type_map(tag) ==
    CASE tag = "=" -> "A"
      [] tag = "^" -> None
      [] tag = "." -> "NS"
      [] tag = "C" -> "CNAME"
      [] tag = "+" -> "A"
      [] tag = "@" -> "MX"
      [] OTHER -> None

InAddrArpaTagsAll == {"=", "^", "+"}

InAddrArpaTags == {"=", "^"}

(***************************************************************************)
(* The normalizers.  Each returns [exc, some, data]: exc is the exception  *)
(* raised (None when it returns), some is FALSE when it returns None.      *)
(* A ttl is [given, text] as read from a line or [given = FALSE] for the   *)
(* default; Record.new turns it into a number.                             *)
(***************************************************************************)
Raised(e) == [exc |-> e, some |-> FALSE, data |-> <<>>]

Returned(d) == [exc |-> None, some |-> TRUE, data |-> d]

ReturnedNone == [exc |-> None, some |-> FALSE, data |-> <<>>]

TtlAtNextField(record, k) ==
    IF Len(record) >= k + 1 THEN [given |-> TRUE, text |-> record[k + 1]]
    ELSE [given |-> FALSE, text |-> ""]

\* try: ttl = record[k - 1]  except IndexError: ttl = self.default_ttl
TtlAt(record, k) ==
    IF Len(record) >= k THEN [given |-> TRUE, text |-> record[k]]
    ELSE [given |-> FALSE, text |-> ""]

NotSentinel(address) == address # "0.0.0.0"

KeepAll(address) == TRUE

Firsts(recs) == [k \in 1..Len(recs) |-> recs[k][1]]

_data_for_A_unfiltered(_type, recs) ==
    IF \E k \in 1..Len(recs) : Len(recs[k]) < 1 THEN Raised(IndexError)
    ELSE Returned([ttl |-> TtlAt(recs[1], 2), type |-> _type,
                   values |-> SelectSeq(Firsts(recs), KeepAll)])

_data_for_A(_type, recs) ==
    IF \E k \in 1..Len(recs) : Len(recs[k]) < 1 THEN Raised(IndexError)
    ELSE LET values == SelectSeq(Firsts(recs), NotSentinel)
         IN  IF Len(values) = 0 THEN ReturnedNone
             ELSE Returned([ttl |-> TtlAt(recs[1], 2), type |-> _type,
                            values |-> values])

_data_for_CNAME(_type, recs) ==
    LET first == recs[1]
    IN  IF Len(first) < 1 THEN Raised(IndexError)
        ELSE Returned([ttl |-> TtlAt(first, 2), type |-> _type,
                       value |-> first[1] \o "."])

_data_for_MX_first_only(_type, recs) ==
    IF Len(recs[1]) < 2 THEN Raised(IndexError)
    ELSE Returned([ttl |-> TtlAt(recs[1], 3), type |-> _type,
                   values |-> <<[priority |-> recs[1][2],
                                 value |-> recs[1][1] \o "."]>>])

_data_for_MX(_type, recs) ==
    IF \E k \in 1..Len(recs) : Len(recs[k]) < 2 THEN Raised(IndexError)
    ELSE Returned([ttl |-> TtlAt(recs[1], 3), type |-> _type,
                   values |-> [k \in 1..Len(recs) |->
                                  [priority |-> recs[k][2],
                                   value |-> recs[k][1] \o "."]]])

_data_for_NS(_type, recs) ==
    IF \E k \in 1..Len(recs) : Len(recs[k]) < 1 THEN Raised(IndexError)
    ELSE Returned([ttl |-> TtlAt(recs[1], 2), type |-> _type,
                   values |-> [k \in 1..Len(recs) |-> recs[k][1] \o "."]])

\* getattr(self, '_data_for_{}'.format(_type))(_type, d)
data_for(_type, recs) ==
    CASE _type = "A" -> _data_for_A(_type, recs)
      [] _type = "CNAME" -> _data_for_CNAME(_type, recs)
      [] _type = "MX" -> _data_for_MX(_type, recs)
      [] _type = "NS" -> _data_for_NS(_type, recs)

(***************************************************************************)
(* The collaborators: Record.new and the zone (the sink).                  *)
(***************************************************************************)
\* Record.new raises ValueError when the ttl is not a number.
RecordNewRaises(d) == d.ttl.given /\ ~IsDigits(d.ttl.text)

RecordTtl(d) == IF d.ttl.given THEN ToInt(d.ttl.text) ELSE default_ttl

\* Record.new(zone, name, data, source=self)
RecordNew(name, d) ==
    IF d.type \in {"CNAME", "PTR"}
    THEN [name |-> name, _type |-> d.type, ttl |-> RecordTtl(d), value |-> d.value]
    ELSE [name |-> name, _type |-> d.type, ttl |-> RecordTtl(d), values |-> d.values]

LastLabel(name) == LET labels == SplitOn(name, ".") IN labels[Len(labels)]

\* zone.sub_zones
sub_zones(zone) == IF IsInAddrArpa(zone) THEN {"9"} ELSE {"sub"}

\* The outcome of zone.add_record(record) on a zone holding recs: None when
\* the record is accepted, else the exception raised.
AddRecordOutcome(zone, recs, record) ==
    IF /\ LastLabel(record.name) \in sub_zones(zone)
       /\ (record.name # LastLabel(record.name) \/ record._type # "NS")
    THEN SubzoneRecordException
    ELSE IF \E k \in 1..Len(recs) :
               recs[k].name = record.name /\ recs[k]._type = record._type
    THEN DuplicateRecordException
    ELSE None

(***************************************************************************)
(* TinyDnsFileSource._lines: the non-empty lines of the files, read once.  *)
(***************************************************************************)
NonEmpty(line) == line # ""

\* The cache after self._lines(); its lines are what the call returns.
_lines(c, dir) ==
    IF c.loaded THEN c ELSE [loaded |-> TRUE, lines |-> SelectSeq(dir, NonEmpty)]

(***************************************************************************)
(* The inputs: the zones populate is called on, the lines the zone files   *)
(* may hold, and what the zone holds before the call.                      *)
(***************************************************************************)
ZonesNormal == {"example.com."}

ZonesInAddrArpa == {"3.2.1.in-addr.arpa.", "1.2.3.in-addr.arpa."}

\* One line of each kind a forward pass can meet.
LinesNormal ==
    { "+www.example.com:1.2.3.4:300",
      "=www.example.com:0.0.0.0",
      "@example.com:mx1.example.com:10:600",
      "@example.com:mx3.example.com",
      ".example.com:ns1.example.com",
      "Cftp.example.com:www.example.com:120",
      "# comment",
      "^4.3.2.1.in-addr.arpa:www.example.com",
      "+www.other.org:1.2.3.4",
      "+www.exampleXcom:9.9.9.9",
      "+a.sub.example.com:1.1.1.1",
      "" }

LinesInAddrArpa ==
    { "=host.example.com:1.2.3.4",
      "=other.example.com:1.2.3.4:300",
      "^4.3.2.1.in-addr.arpa:host.example.com",
      "=host.example.com:213.1.5.6",
      "=host.example.com:1.2.3.9",
      "=host.example.com",
      "=bad.example.com:1.2.3",
      "+www.example.com:1.2.3.4",
      "" }

LinesOf(zone) == IF zone \in ZonesNormal THEN LinesNormal ELSE LinesInAddrArpa

\* Lines the name matcher places in the zone under the names 'www', 'ftp'
\* and the apex, several to a group, and a comment line.
LinesNormalGroups ==
    { "+www.example.com:1.2.3.4:300",
      "=www.example.com:0.0.0.0",
      "+www.example.com:5.6.7.8::60 # alt",
      "@example.com:mx1.example.com:10:600",
      "@example.com:mx2.example.com:20",
      ".example.com:ns1.example.com",
      "Cftp.example.com:www.example.com:120",
      "# comment",
      "+www.exampleXcom:9.9.9.9" }

\* Records another source left in the zone before this call.
ExistingRecords(zone) ==
    IF zone \in ZonesNormal
    THEN { <<>>,
           <<[name |-> "", _type |-> "NS", ttl |-> 60,
              values |-> <<"ns9.example.com.">>]>> }
    ELSE { <<>> }

SeqsUpTo(S, n) == UNION {[1..k -> S] : k \in 0..n}

\* The state before populate is called: nothing read, nothing aggregated.
Constructed ==
    /\ records \in ExistingRecords(zone_name)
    /\ before = 0
    /\ cache = [loaded |-> FALSE, lines |-> <<>>]
    /\ mode = None
    /\ pc = "populate"
    /\ i = 0
    /\ data = <<>>
    /\ emitted = {}
    /\ cur_name = None
    /\ handed = <<>>
    /\ log = <<>>
    /\ addr = Unbound
    /\ err = None

Init ==
    /\ zone_name \in ZonesNormal \cup ZonesInAddrArpa
    /\ directory \in SeqsUpTo(LinesOf(zone_name), MaxLines)
    /\ Constructed

\* A forward zone whose files hold the lines that form groups.
InitNormal ==
    /\ zone_name \in ZonesNormal
    /\ directory \in SeqsUpTo(LinesNormalGroups, MaxLines)
    /\ Constructed

\* A reverse zone.
InitInAddrArpa ==
    /\ zone_name \in ZonesInAddrArpa
    /\ directory \in SeqsUpTo(LinesInAddrArpa, MaxLines)
    /\ Constructed

(***************************************************************************)
(* populate: the mode decision, and entry into the chosen pass's loop.     *)
(***************************************************************************)
Populate ==
    /\ pc = "populate"
    /\ before' = Len(records)
    /\ mode' = IF IsInAddrArpa(zone_name) THEN "_populate_in_addr_arpa"
               ELSE "_populate_normal"
    /\ pc' = mode'
    /\ cache' = _lines(cache, directory)
    /\ i' = 1
    /\ UNCHANGED <<zone_name, directory, data, emitted, cur_name, records,
                   handed, log, addr, err>>

\* An exception leaves the pass and populate: nothing after it runs.
Fail(e) ==
    /\ pc' = "failed"
    /\ err' = e

(***************************************************************************)
(* _populate_normal, first loop: one line of the for loop.                 *)
(***************************************************************************)
\* if _type not in type_map: continue ... if not _type: continue
SkippedNormal(tag) == tag \notin TypeMapKeys \/ type_map(tag) = None

\* data[name][_type].append(fields)
AppendToData(d, name, _type, fields) ==
    IF \E g \in 1..Len(d) : d[g].name = name /\ d[g]._type = _type
    THEN [g \in 1..Len(d) |->
            IF d[g].name = name /\ d[g]._type = _type
            THEN [d[g] EXCEPT !.d = Append(@, fields)]
            ELSE d[g]]
    ELSE Append(d, [name |-> name, _type |-> _type, d |-> <<fields>>])

NormalLine ==
    /\ pc = "_populate_normal"
    /\ i <= Len(cache.lines)
    /\ LET line == cache.lines[i]
           tag == Char(line, 1)
           fields == Fields(line)
       IN  IF Len(line) = 0
           THEN Fail(IndexError) /\ UNCHANGED <<i, data>>
           ELSE /\ i' = i + 1
                /\ UNCHANGED <<pc, err>>
                /\ IF SkippedNormal(tag) \/ ~name_re_normal(zone_name, fields[1])
                   THEN UNCHANGED data
                   ELSE data' = AppendToData(data,
                                    hostname_from_fqdn(zone_name, fields[1]),
                                    type_map(tag), Tail(fields))
    /\ UNCHANGED <<zone_name, before, directory, cache, mode, emitted,
                   cur_name, records, handed, log, addr>>

(***************************************************************************)
(* _populate_normal, second loop: one (name, _type) of data.  The order of *)
(* a dict's items is the interpreter's: any name not yet taken, then the   *)
(* types of that name before another name.                                 *)
(***************************************************************************)
\* except SubzoneRecordException
CaughtAnything == {SubzoneRecordException, DuplicateRecordException}

CaughtNormal == {SubzoneRecordException}

MayIterate(g) ==
    /\ g \in (1..Len(data)) \ emitted
    /\ (\E h \in (1..Len(data)) \ emitted : data[h].name = cur_name)
          => data[g].name = cur_name

NormalEmit ==
    /\ pc = "_populate_normal"
    /\ i > Len(cache.lines)
    /\ \E g \in 1..Len(data) :
        /\ MayIterate(g)
        /\ emitted' = emitted \cup {g}
        /\ cur_name' = data[g].name
        /\ LET res == data_for(data[g]._type, data[g].d)
               record == RecordNew(data[g].name, res.data)
               outcome == AddRecordOutcome(zone_name, records, record)
           IN  IF res.exc # None
               THEN Fail(res.exc) /\ UNCHANGED <<records, handed, log>>
               ELSE IF ~res.some
               THEN UNCHANGED <<pc, err, records, handed, log>>
               ELSE IF RecordNewRaises(res.data)
               THEN Fail(ValueError) /\ UNCHANGED <<records, handed, log>>
               ELSE /\ handed' = Append(handed, record)
                    /\ IF outcome = None
                       THEN /\ records' = Append(records, record)
                            /\ UNCHANGED <<pc, err, log>>
                       ELSE IF outcome \in CaughtNormal
                       THEN /\ log' = Append(log, [level |-> "debug",
                                                   record |-> record.name])
                            /\ UNCHANGED <<pc, err, records>>
                       ELSE Fail(outcome) /\ UNCHANGED <<records, log>>
    /\ UNCHANGED <<zone_name, before, directory, cache, mode, i, data, addr>>

(***************************************************************************)
(* _populate_in_addr_arpa: one line of the for loop.                       *)
(***************************************************************************)
\* if _type not in ('=', '^'): continue
SkippedInAddrArpa(tag) == tag \notin InAddrArpaTags

\* line[0].endswith('in-addr.arpa')
AlreadyInAddrArpa(fields) == EndsWith(fields[1], "in-addr.arpa")

\* The string name_re is matched against.
MatchedName(fields) ==
    IF AlreadyInAddrArpa(fields) THEN fields[1] ELSE reverse_pointer(fields[2])

\* value = '{}.'.format(line[1]) or '{}.'.format(line[0])
PtrValue(fields) ==
    IF AlreadyInAddrArpa(fields) THEN fields[2] \o "." ELSE fields[1] \o "."

\* The exception the two branches raise before the match is looked at.
BranchRaises(fields) ==
    IF Len(fields) < 2 THEN IndexError
    ELSE IF ~AlreadyInAddrArpa(fields) /\ ~IsIPv4(fields[2]) THEN ValueError
    ELSE None

\* except DuplicateRecordException
CaughtInAddrArpa == {DuplicateRecordException}

InAddrArpaLine ==
    /\ pc = "_populate_in_addr_arpa"
    /\ i <= Len(cache.lines)
    /\ LET line == cache.lines[i]
           tag == Char(line, 1)
           fields == Fields(line)
           d == [ttl |-> TtlAt(fields, 3), type |-> "PTR",
                 value |-> PtrValue(fields)]
           record == RecordNew(GroupName(zone_name, MatchedName(fields)), d)
           outcome == AddRecordOutcome(zone_name, records, record)
           Continue == i' = i + 1 /\ UNCHANGED <<pc, err>>
       IN  IF Len(line) = 0
           THEN Fail(IndexError) /\ UNCHANGED <<i, records, handed, log, addr>>
           ELSE IF SkippedInAddrArpa(tag)
           THEN Continue /\ UNCHANGED <<records, handed, log, addr>>
           ELSE IF BranchRaises(fields) # None
           THEN /\ Fail(BranchRaises(fields))
                /\ UNCHANGED <<i, records, handed, log, addr>>
           ELSE /\ addr' = IF AlreadyInAddrArpa(fields) THEN addr ELSE fields[2]
                /\ IF ~name_re_in_addr_arpa(zone_name, MatchedName(fields))
                   THEN Continue /\ UNCHANGED <<records, handed, log>>
                   ELSE IF RecordNewRaises(d)
                   THEN Fail(ValueError) /\ UNCHANGED <<i, records, handed, log>>
                   ELSE /\ handed' = Append(handed, record)
                        /\ IF outcome = None
                           THEN /\ records' = Append(records, record)
                                /\ Continue
                                /\ UNCHANGED log
                           ELSE IF outcome \notin CaughtInAddrArpa
                           THEN Fail(outcome) /\ UNCHANGED <<i, records, log>>
                           ELSE IF addr' = Unbound
                           THEN /\ Fail(UnboundLocalError)
                                /\ UNCHANGED <<i, records, log>>
                           ELSE /\ log' = Append(log, [level |-> "warn",
                                                       addr |-> addr'])
                                /\ Continue
                                /\ UNCHANGED records
    /\ UNCHANGED <<zone_name, before, directory, cache, mode, data, emitted,
                   cur_name>>

(***************************************************************************)
(* populate: the pass returned; log the number of records found.           *)
(***************************************************************************)
PopulateReturn ==
    /\ pc \in {"_populate_normal", "_populate_in_addr_arpa"}
    /\ i > Len(cache.lines)
    /\ emitted = 1..Len(data)
    /\ pc' = "done"
    /\ log' = Append(log, [level |-> "info", found |-> Len(records) - before])
    /\ UNCHANGED <<zone_name, before, directory, cache, mode, i, data,
                   emitted, cur_name, records, handed, addr, err>>

Next ==
    \/ Populate
    \/ NormalLine
    \/ NormalEmit
    \/ InAddrArpaLine
    \/ PopulateReturn

Spec == Init /\ [][Next]_vars

\* populate on a forward zone: the reverse pass never runs.
NextNormal ==
    \/ Populate
    \/ NormalLine
    \/ NormalEmit
    \/ PopulateReturn

SpecNormal == InitNormal /\ [][NextNormal]_vars

\* populate on a reverse zone: the forward pass never runs.
NextInAddrArpa ==
    \/ Populate
    \/ InAddrArpaLine
    \/ PopulateReturn

SpecInAddrArpa == InitInAddrArpa /\ [][NextInAddrArpa]_vars

(***************************************************************************)
(* What the properties below speak of.                                     *)
(***************************************************************************)
Normal == "_populate_normal"

InAddrArpa == "_populate_in_addr_arpa"

Last(s) == s[Len(s)]

\* The tags whose lines contribute to a record type in a forward zone.
TagsOf(_type) ==
    CASE _type = "A" -> {"=", "+"}
      [] _type = "CNAME" -> {"C"}
      [] _type = "MX" -> {"@"}
      [] _type = "NS" -> {"."}

\* The fields after the name of the lines of the group (name, _type), in
\* input order: the lines with a tag of the type whose first field the name
\* matcher places in the zone under that zone-relative name.
GroupFields(name, _type) ==
    LET Member(line) ==
            /\ line # ""
            /\ Char(line, 1) \in TagsOf(_type)
            /\ LET fqdn == Fields(line)[1]
               IN  /\ name_re_normal(zone_name, fqdn)
                   /\ hostname_from_fqdn(zone_name, fqdn) = name
        members == SelectSeq(cache.lines, Member)
    IN  [k \in 1..Len(members) |-> Tail(Fields(members[k]))]

\* A name belongs to the zone: it is the zone's name or ends with '.' and
\* the zone's name (the lines carry names without the final dot).
BelongsToZone(fqdn, zone) ==
    \/ fqdn = zone
    \/ fqdn = ZoneSuffix(zone)
    \/ EndsWith(fqdn, "." \o zone)
    \/ EndsWith(fqdn, "." \o ZoneSuffix(zone))

\* The part of a name of the zone before the zone's name.
RelativeName(fqdn, zone) ==
    LET bare == IF EndsWith(fqdn, ".") THEN SubSeq(fqdn, 1, Len(fqdn) - 1)
                ELSE fqdn
    IN  IF Len(bare) <= Len(ZoneSuffix(zone)) THEN ""
        ELSE SubSeq(bare, 1, Len(bare) - Len(zone))

\* The fully-qualified name a line is about in the mode, when it has one.
HasFqdn(m, line) ==
    /\ line # ""
    /\ IF m = Normal THEN Char(line, 1) \in {"=", "+", "C", ".", "@"}
       ELSE /\ Char(line, 1) \in {"=", "^"}
            /\ BranchRaises(Fields(line)) = None

FqdnOf(m, line) ==
    IF m = Normal THEN Fields(line)[1] ELSE MatchedName(Fields(line))

\* A line the mode does not recognize: empty, or led by no tag of the mode.
Unrecognized(m, line) ==
    \/ line = ""
    \/ IF m = Normal THEN Char(line, 1) \notin {"=", "+", "C", ".", "@", "^"}
       ELSE Char(line, 1) \notin {"=", "^"}

\* The rejection each mode recovers from.
Recovered(m) ==
    IF m = Normal THEN SubzoneRecordException ELSE DuplicateRecordException

Scanning == pc \in {Normal, InAddrArpa} /\ i <= Len(cache.lines)

(***************************************************************************)
(* C1: in reverse-zone populate every DuplicateRecord rejection from the   *)
(* sink is recovered: the call does not fail, the loop goes on to the next *)
(* line, a warning is logged that names the address of the rejected line   *)
(* (an address whose reverse pointer is the line's reverse name), and the  *)
(* sink keeps the record it already had.                                   *)
(***************************************************************************)
C1_DuplicateRecovered ==
    [][ ( /\ mode = InAddrArpa
          /\ Len(handed') > Len(handed)
          /\ AddRecordOutcome(zone_name, records, Last(handed'))
                = DuplicateRecordException )
        => ( /\ pc' # "failed"
             /\ i' = i + 1
             /\ records' = records
             /\ Len(log') = Len(log) + 1
             /\ Last(log').level = "warn"
             /\ reverse_pointer(Last(log').addr)
                   = MatchedName(Fields(cache.lines[i])) ) ]_vars

(***************************************************************************)
(* C2: a recognized line with fewer fields than its type reads is never a  *)
(* fatal error: populate never ends on an IndexError.                      *)
(***************************************************************************)
C2_ShortLineNotFatal == ~(pc = "failed" /\ err = IndexError)

(***************************************************************************)
(* C3: every record handed to the sink comes from a line whose             *)
(* fully-qualified name (forward: the first field; reverse: the reverse    *)
(* name) belongs to the zone, and carries that name's zone-relative part.  *)
(***************************************************************************)
C3_OnlyNamesOfTheZone ==
    \A h \in 1..Len(handed) :
        \E k \in 1..Len(cache.lines) :
            /\ HasFqdn(mode, cache.lines[k])
            /\ BelongsToZone(FqdnOf(mode, cache.lines[k]), zone_name)
            /\ RelativeName(FqdnOf(mode, cache.lines[k]), zone_name)
                  = handed[h].name

(***************************************************************************)
(* C4, as stated: on reverse zone 1.2.3.in-addr.arpa. the line             *)
(* '=host.example.com:1.2.3.4' yields a PTR record named '4' with value    *)
(* 'host.example.com.'.                                                    *)
(***************************************************************************)
TheLine == "=host.example.com:1.2.3.4"

IsThePtr(record) ==
    /\ record._type = "PTR"
    /\ record.name = "4"
    /\ record.value = "host.example.com."

C4_AsStated ==
    ( /\ zone_name = "1.2.3.in-addr.arpa."
      /\ pc = "done"
      /\ cache.lines = <<TheLine>> )
    => \E h \in 1..Len(handed) : IsThePtr(handed[h])

(***************************************************************************)
(* C4, amended: the reverse name of 1.2.3.4 is 4.3.2.1.in-addr.arpa, so it *)
(* is on reverse zone 3.2.1.in-addr.arpa. that every processed line        *)
(* '=host.example.com:1.2.3.4' hands the sink a PTR record named '4' with  *)
(* value 'host.example.com.' (and the default TTL); on zone                *)
(* 1.2.3.in-addr.arpa. the line is outside the zone and hands nothing.     *)
(***************************************************************************)
C4_ReverseZoneOfTheAddress ==
    /\ ( /\ zone_name = "3.2.1.in-addr.arpa."
         /\ \E k \in 1..Len(cache.lines) : k < i /\ cache.lines[k] = TheLine )
       => \E h \in 1..Len(handed) :
              IsThePtr(handed[h]) /\ handed[h].ttl = default_ttl
    /\ ( /\ zone_name = "1.2.3.in-addr.arpa."
         /\ \A k \in 1..Len(cache.lines) : cache.lines[k] = TheLine )
       => handed = <<>>

C4_Witness ==
    /\ zone_name = "3.2.1.in-addr.arpa."
    /\ pc = "done"
    /\ cache.lines = <<TheLine>>
    /\ Len(records) = 1
    /\ IsThePtr(records[1])

(***************************************************************************)
(* C5: every A record handed to the sink in a forward zone carries exactly *)
(* the addresses of its group's lines other than 0.0.0.0, in input order,  *)
(* and at least one: a group whose addresses are all 0.0.0.0 hands no      *)
(* record to the sink.                                                     *)
(***************************************************************************)
AddressesOf(name) ==
    LET fields == GroupFields(name, "A")
        IsAddress(a) == a # "0.0.0.0"
    IN  SelectSeq([k \in 1..Len(fields) |-> fields[k][1]], IsAddress)

C5_AValuesWithoutSentinel ==
    \A h \in 1..Len(handed) :
        (mode = Normal /\ handed[h]._type = "A")
        => /\ handed[h].values = AddressesOf(handed[h].name)
           /\ handed[h].values # <<>>

\* An A record was handed whose group held a 0.0.0.0 line and another
\* group (all 0.0.0.0) would have been handed had it produced a record.
C5_Witness ==
    /\ mode = Normal
    /\ \E h \in 1..Len(handed) :
          /\ handed[h]._type = "A"
          /\ Len(GroupFields(handed[h].name, "A")) > Len(handed[h].values)

(***************************************************************************)
(* C6: every record handed to the sink in a forward zone carries the TTL   *)
(* field of the first line of its group (the second field after the name   *)
(* for A, CNAME and NS, the third for MX) when that line has it, and the   *)
(* default TTL otherwise, whatever the later lines of the group and the    *)
(* lines of other groups say.                                              *)
(***************************************************************************)
TtlPosition(_type) == IF _type = "MX" THEN 3 ELSE 2

FirstLineTtl(name, _type) ==
    LET first == GroupFields(name, _type)[1]
    IN  IF Len(first) >= TtlPosition(_type)
        THEN ToInt(first[TtlPosition(_type)])
        ELSE default_ttl

C6_TtlOfFirstLine ==
    \A h \in 1..Len(handed) :
        mode = Normal
        => handed[h].ttl = FirstLineTtl(handed[h].name, handed[h]._type)

\* A record was handed whose group has a later line with another TTL field
\* than the first line's.
C6_Witness ==
    /\ mode = Normal
    /\ \E h \in 1..Len(handed) :
          LET fields == GroupFields(handed[h].name, handed[h]._type)
              pos == TtlPosition(handed[h]._type)
          IN  /\ Len(fields) >= 2
              /\ Len(fields[1]) >= pos
              /\ \E k \in 2..Len(fields) :
                    Len(fields[k]) < pos \/ fields[k][pos] # fields[1][pos]

(***************************************************************************)
(* C7: every MX record handed to the sink has one {priority, value} entry  *)
(* per line of its group, in input order, each value the line's target     *)
(* with a trailing dot.                                                    *)
(***************************************************************************)
C7_MxEntryPerLine ==
    \A h \in 1..Len(handed) :
        (mode = Normal /\ handed[h]._type = "MX")
        => LET fields == GroupFields(handed[h].name, "MX")
           IN  /\ Len(handed[h].values) = Len(fields)
               /\ \A k \in 1..Len(fields) :
                     /\ handed[h].values[k].priority = fields[k][2]
                     /\ handed[h].values[k].value = fields[k][1] \o "."

C7_Witness ==
    /\ mode = Normal
    /\ \E h \in 1..Len(handed) :
          /\ handed[h]._type = "MX"
          /\ Len(handed[h].values) >= 2
          /\ handed[h].values[1] # handed[h].values[2]

(***************************************************************************)
(* C8: a sink rejection other than the one the mode recovers from ends     *)
(* populate at that record with that error; after a failure nothing more   *)
(* is handed to the sink, and the sink never loses a record it accepted.   *)
(***************************************************************************)
IsPrefix(s, t) == Len(s) <= Len(t) /\ SubSeq(t, 1, Len(s)) = s

C8_OtherRejectionFatal ==
    [][ /\ ( /\ Len(handed') > Len(handed)
             /\ AddRecordOutcome(zone_name, records, Last(handed'))
                   \notin {None, Recovered(mode)} )
           => ( /\ pc' = "failed"
                /\ err' = AddRecordOutcome(zone_name, records, Last(handed'))
                /\ records' = records )
        /\ pc = "failed" => (pc' = "failed" /\ Len(handed') = Len(handed))
        /\ IsPrefix(records, records') ]_vars

\* A forward populate failed on a duplicate after the sink accepted a record.
C8_Witness ==
    /\ pc = "failed"
    /\ mode = Normal
    /\ err = DuplicateRecordException
    /\ Len(records) > before

(***************************************************************************)
(* C9: in both modes a line that is empty or led by a character that is no *)
(* tag of the mode is skipped: the loop moves to the next line, and the    *)
(* step changes neither the aggregated data, the sink, what was handed to  *)
(* it, the log nor the error state.                                        *)
(***************************************************************************)
C9_UnrecognizedSkipped ==
    [][ (Scanning /\ Unrecognized(mode, cache.lines[i]))
        => ( /\ i' = i + 1
             /\ pc' = pc
             /\ err' = err
             /\ UNCHANGED <<data, records, handed, log, addr>> ) ]_vars

\* A populate that met an empty and an unrecognized line ran to its end and
\* handed a record.
C9_Witness ==
    /\ pc = "done"
    /\ Len(handed) > 0
    /\ Len(directory) > Len(cache.lines)
    /\ \E k \in 1..Len(cache.lines) : Unrecognized(mode, cache.lines[k])

(***************************************************************************)
(* C10: populate decides the mode once: reverse processing exactly when    *)
(* the zone's name ends with 'in-addr.arpa.', forward processing           *)
(* otherwise; the mode never changes afterwards; a reverse populate hands  *)
(* only PTR records to the sink and a forward one only A, CNAME, MX or NS. *)
(***************************************************************************)
C10_OneModeDecision ==
    /\ [][mode # None => mode' = mode]_vars
    /\ [](mode # None =>
            /\ mode \in {Normal, InAddrArpa}
            /\ mode = InAddrArpa <=> EndsWith(zone_name, "in-addr.arpa.")
            /\ \A h \in 1..Len(handed) :
                  IF mode = InAddrArpa THEN handed[h]._type = "PTR"
                  ELSE handed[h]._type \in {"A", "CNAME", "MX", "NS"})

C10_Witness ==
    /\ pc = "done"
    /\ mode = InAddrArpa
    /\ Len(handed) >= 2

====
